---------------------------- MODULE Spec2Model ----------------------------
(***************************************************************************)
(* A model of "Week 9 Project/load_alex_emails.py": one invocation of      *)
(* main() over a small file system.  File names are sequences of           *)
(* characters so that str.lower(), the substring test and the glob         *)
(* patterns are computed as the code computes them.  Path matching is      *)
(* that of a POSIX build (pathlib.PosixPath: case-sensitive globbing).     *)
(***************************************************************************)
EXTENDS Integers, Sequences, FiniteSets, TLC

VARIABLES
    args,       \* the parsed command line (line 52)
    fs,         \* the file system: what each place holds
    fs0,        \* the file system as it was when main started
    pc,         \* where main is: "resolve", "load", "report", "save",
                \* "returned", or "raised" when an exception left main
    rc,         \* the value main returned, meaningful once pc = "returned"
    exc,        \* the exception that left main, once pc = "raised"
    file_path,  \* line 56 / 66
    df,         \* line 70
    out,        \* the lines printed on standard output, in order
    calls       \* the calls made so far, in order

vars == <<args, fs, fs0, pc, rc, exc, file_path, df, out, calls>>

(***************************************************************************)
(* Bounds of the model.                                                    *)
(***************************************************************************)
\* The largest number of entries the file system holds when main starts.
MaxFiles == 2

(***************************************************************************)
(* File names.                                                             *)
(***************************************************************************)
\* line 61: target_name = 'Alex_emails_march_04.csv'
target_name == <<"A","l","e","x","_","e","m","a","i","l","s","_","m","a","r","c","h","_","0","4",".","c","s","v">>
\* old_ALEX_emails_march_04.csv
PrefixedName == <<"o","l","d","_","A","L","E","X","_","e","m","a","i","l","s","_","m","a","r","c","h","_","0","4",".","c","s","v">>
\* Alex_emails_march_04.csv.bak
BakName == <<"A","l","e","x","_","e","m","a","i","l","s","_","m","a","r","c","h","_","0","4",".","c","s","v",".","b","a","k">>
\* notes.csv
NotesName == <<"n","o","t","e","s",".","c","s","v">>
\* out.pkl
OutName == <<"o","u","t",".","p","k","l">>
\* line 31: the pattern '*.csv'
StarCsv == <<"*",".","c","s","v">>

SearchNames == {target_name, PrefixedName, BakName, NotesName}

(***************************************************************************)
(* Directories: "" is the current working directory, "sub" a directory     *)
(* below it, "missing" a directory that does not exist.                    *)
(***************************************************************************)
Cwd == ""
ExistingDirs == {Cwd, "sub"}

\* A place of the file system: a directory and a file name in it.
Place(d, n) == [dir |-> d, name |-> n]

\* A path or a path string: relative to the working directory or absolute,
\* a directory and a file name.  The empty string is the relative path with
\* no directory and no name.
P(d, n) == [abs |-> FALSE, dir |-> d, name |-> n]
EmptyStr == P(Cwd, <<>>)
PlaceOf(path) == Place(path.dir, path.name)

\* Optional[str] of argparse: None, or a string.
None == [none |-> TRUE, s |-> EmptyStr]
Some(s) == [none |-> FALSE, s |-> s]
\* Python's truth value of an Optional[str]: None and '' are false.
Truthy(v) == ~v.none /\ v.s # EmptyStr

\* The index_col parameter of load_csv: None, or a column name.
NoneCol == [none |-> TRUE, s |-> ""]
Col(c) == [none |-> FALSE, s |-> c]
TruthyCol(v) == ~v.none /\ v.s # ""

(***************************************************************************)
(* Tables (pandas.DataFrame): column names, rows aligned with the columns, *)
(* and one index label per row.                                            *)
(***************************************************************************)
RangeIndex(n) == [i \in 1..n |-> i - 1]
NoTable == [columns |-> <<>>, rows |-> <<>>, index |-> <<>>]
\* email_id,subject with a repeated email_id
TableA == [columns |-> <<"email_id", "subject">>,
           rows |-> << <<7, 101>>, <<7, 102>>, <<9, 103>> >>,
           index |-> RangeIndex(3)]
\* no column named exactly email_id
TableB == [columns |-> <<"subject", "Email_ID">>,
           rows |-> << <<201, 5>> >>,
           index |-> RangeIndex(1)]

(***************************************************************************)
(* What a place holds: a regular file whose bytes are or are not valid     *)
(* UTF-8 and parse to a table, a directory, or a snapshot written by       *)
(* DataFrame.to_pickle.                                                    *)
(***************************************************************************)
CsvA == [kind |-> "file", utf8 |-> TRUE, table |-> TableA]
CsvB == [kind |-> "file", utf8 |-> FALSE, table |-> TableB]
DirEntry == [kind |-> "dir", utf8 |-> TRUE, table |-> NoTable]
Pickle(t) == [kind |-> "pickle", utf8 |-> FALSE, table |-> t]
OldPickle == Pickle(TableB)

Places == {Place(d, n) : d \in ExistingDirs, n \in SearchNames} \cup {Place(Cwd, OutName)}
ContentsAt(pl) == IF pl.name = OutName THEN {OldPickle, DirEntry} ELSE {CsvA, CsvB, DirEntry}
FileSystems ==
    {f \in UNION {[S -> {CsvA, CsvB, DirEntry, OldPickle}] :
                    S \in {T \in SUBSET Places : Cardinality(T) <= MaxFiles}} :
        \A pl \in DOMAIN f : f[pl] \in ContentsAt(pl)}

\* Path.exists(): a path with no file name is its directory
Exists(f, path) ==
    IF path.name = <<>> THEN path.dir \in ExistingDirs
    ELSE PlaceOf(path) \in DOMAIN f
\* Path.is_dir()
IsDir(f, path) ==
    IF path.name = <<>> THEN path.dir \in ExistingDirs
    ELSE PlaceOf(path) \in DOMAIN f /\ f[PlaceOf(path)].kind = "dir"

(***************************************************************************)
(* Strings.                                                                *)
(***************************************************************************)
\* str.lower() on one character; A, L, E and X are the upper-case letters
\* of the file names of the model
LowerChar(c) ==
    CASE c = "A" -> "a" [] c = "L" -> "l" [] c = "E" -> "e" [] c = "X" -> "x"
      [] OTHER -> c
\* str.lower()
Lower(s) == [i \in 1..Len(s) |-> LowerChar(s[i])]
\* t in s
Contains(s, t) ==
    \E i \in 0..(Len(s) - Len(t)) : SubSeq(s, i + 1, i + Len(t)) = t

\* fnmatch of one path component against a pattern in which '*' matches
\* any run of characters and every other character matches itself
RECURSIVE Match(_, _)
Match(pat, s) ==
    IF pat = <<>> THEN s = <<>>
    ELSE IF Head(pat) = "*"
         THEN \E k \in 0..Len(s) : Match(Tail(pat), SubSeq(s, k + 1, Len(s)))
         ELSE s # <<>> /\ Head(pat) = Head(s) /\ Match(Tail(pat), Tail(s))

\* Path.rglob(pattern): the paths of the entries below root whose name
\* matches, each the root joined with the entry's place
RGlob(f, root, pattern) ==
    {[abs |-> root.abs, dir |-> pl.dir, name |-> pl.name] :
        pl \in {q \in DOMAIN f : (root.dir = Cwd \/ q.dir = root.dir)
                                  /\ Match(pattern, q.name)}}

(***************************************************************************)
(* find_file_by_name: the set of outcomes of the call, each the value      *)
(* returned and the rglob calls made on the way.  The order in which rglob *)
(* yields its matches is the file system's, so the first match is any      *)
(* match.                                                                  *)
(***************************************************************************)
SubstringMatches(f, name, root) ==
    {p \in RGlob(f, root, StarCsv) : Contains(Lower(p.name), Lower(name))}

Outcome(found, globs) == [found |-> found, globs |-> globs]

\* find_file_by_name with the substring stage tried before the exact-name stage
find_file_by_name_SubstringFirst(f, name, root) ==
    IF Exists(f, P(Cwd, name)) THEN {Outcome(Some(P(Cwd, name)), <<>>)}
    ELSE IF SubstringMatches(f, name, root) # {}
         THEN {Outcome(Some(p), <<"rglob">>) : p \in SubstringMatches(f, name, root)}
    ELSE IF RGlob(f, root, name) # {}
         THEN {Outcome(Some(p), <<"rglob", "rglob">>) : p \in RGlob(f, root, name)}
    ELSE {Outcome(None, <<"rglob", "rglob">>)}

\* find_file_by_name without its substring stage
find_file_by_name_NoSubstring(f, name, root) ==
    IF Exists(f, P(Cwd, name)) THEN {Outcome(Some(P(Cwd, name)), <<>>)}
    ELSE IF RGlob(f, root, name) # {}
         THEN {Outcome(Some(p), <<"rglob">>) : p \in RGlob(f, root, name)}
    ELSE {Outcome(None, <<"rglob">>)}

find_file_by_name(f, name, root) ==
    IF Exists(f, P(Cwd, name)) THEN {Outcome(Some(P(Cwd, name)), <<>>)}
    ELSE IF RGlob(f, root, name) # {}
         THEN {Outcome(Some(p), <<"rglob">>) : p \in RGlob(f, root, name)}
    ELSE IF SubstringMatches(f, name, root) # {}
         THEN {Outcome(Some(p), <<"rglob", "rglob">>) : p \in SubstringMatches(f, name, root)}
    ELSE {Outcome(None, <<"rglob", "rglob">>)}

(***************************************************************************)
(* load_csv.                                                               *)
(***************************************************************************)
Raised(e) == [raised |-> TRUE, exc |-> e, df |-> NoTable]
Returned(t) == [raised |-> FALSE, exc |-> "", df |-> t]

\* pd.read_csv(path, encoding=encoding): the parse is the library's; what
\* the model keeps of it is which files it refuses and the table it yields.
read_csv(f, path, encoding) ==
    IF ~Exists(f, path) THEN Raised("FileNotFoundError")
    ELSE IF IsDir(f, path) THEN Raised("IsADirectoryError")
    ELSE LET c == f[PlaceOf(path)] IN
         IF encoding = "utf-8" /\ ~c.utf8 THEN Raised("UnicodeDecodeError")
         ELSE IF c.kind = "pickle" THEN Raised("ParserError")
         ELSE Returned(c.table)

RemoveAt(s, k) == SubSeq(s, 1, k - 1) \o SubSeq(s, k + 1, Len(s))
PositionOf(s, x) == CHOOSE k \in 1..Len(s) : s[k] = x

\* set_index(col, drop=False): the column stays among the data columns
set_index_KeepColumn(t, col) ==
    LET k == PositionOf(t.columns, col) IN
    [columns |-> t.columns,
     rows |-> t.rows,
     index |-> [i \in 1..Len(t.rows) |-> t.rows[i][k]]]

\* DataFrame.set_index(col): the column's values become the index labels
\* and the column leaves the data columns.
set_index(t, col) ==
    LET k == PositionOf(t.columns, col) IN
    [columns |-> RemoveAt(t.columns, k),
     rows |-> [i \in 1..Len(t.rows) |-> RemoveAt(t.rows[i], k)],
     index |-> [i \in 1..Len(t.rows) |-> t.rows[i][k]]]

InColumns(t, c) == \E k \in 1..Len(t.columns) : t.columns[k] = c

\* load_csv without the membership test: set_index raises KeyError on an
\* absent column
load_csv_Unguarded(f, path, encoding, index_col) ==
    LET r == read_csv(f, path, encoding) IN
    IF r.raised THEN r
    ELSE IF TruthyCol(index_col)
         THEN IF InColumns(r.df, index_col.s)
              THEN Returned(set_index(r.df, index_col.s))
              ELSE Raised("KeyError")
         ELSE r

load_csv(f, path, encoding, index_col) ==
    LET r == read_csv(f, path, encoding) IN
    IF r.raised THEN r
    ELSE IF TruthyCol(index_col) /\ InColumns(r.df, index_col.s)
         THEN Returned(set_index(r.df, index_col.s))
         ELSE r

(***************************************************************************)
(* Reporting.                                                              *)
(***************************************************************************)
\* head(n + 1)
HeadCount_OffByOne(len, n) ==
    IF n + 1 >= 0 THEN (IF n + 1 < len THEN n + 1 ELSE len)
    ELSE (IF len + n + 1 > 0 THEN len + n + 1 ELSE 0)

\* DataFrame.head(n): the first n rows, or all but the last -n when n < 0
HeadCount(len, n) ==
    IF n >= 0 THEN (IF n < len THEN n ELSE len)
    ELSE (IF len + n > 0 THEN len + n ELSE 0)
head(t, n) ==
    [columns |-> t.columns,
     rows |-> SubSeq(t.rows, 1, HeadCount(Len(t.rows), n)),
     index |-> SubSeq(t.index, 1, HeadCount(Len(t.rows), n))]

\* One print() call: what is printed, and the value formatted into it.
Line(tag, val) == [tag |-> tag, val |-> val]

(***************************************************************************)
(* DataFrame.to_pickle(out): opening the file for writing fails when its   *)
(* directory does not exist or when the path is a directory.               *)
(***************************************************************************)
ToPickleRaises(f, path) ==
    \/ path.dir \notin ExistingDirs
    \/ IsDir(f, path)
to_pickle(f, t, path) ==
    [pl \in DOMAIN f \cup {PlaceOf(path)} |->
        IF pl = PlaceOf(path) THEN Pickle(t) ELSE f[pl]]

(***************************************************************************)
(* The command line.                                                       *)
(***************************************************************************)
\* line 50: --head, default=5
DefaultHead == 5
ArgPaths == {None, Some(EmptyStr), Some(P("sub", NotesName)), Some(P(Cwd, target_name))}
Encodings == {"latin-1", "utf-8"}
Heads == {0, 2, DefaultHead}
SavePaths == {None, Some(EmptyStr), Some(P(Cwd, OutName)), Some(P("missing", OutName))}
\* parser.parse_args(argv)
ArgSets == [path : ArgPaths, encoding : Encodings, no_index : BOOLEAN,
            head : Heads, save_pickle : SavePaths]

\* line 54: root = Path('.').resolve()
root == [abs |-> TRUE, dir |-> Cwd]

(***************************************************************************)
(* main, one action per stage of the script.                               *)
(***************************************************************************)
Init ==
    /\ args \in ArgSets
    /\ fs \in FileSystems
    /\ fs0 = fs
    /\ pc = "resolve"
    /\ rc = 0
    /\ exc = ""
    /\ file_path = EmptyStr
    /\ df = NoTable
    /\ out = <<>>
    /\ calls = <<>>

Return(code) == pc' = "returned" /\ rc' = code

\* line 57 without the existence test
ExplicitPathMissing_Never(f, a) == FALSE

\* line 55: if args.path:
UsesExplicitPath(a) == Truthy(a.path)
\* line 57: if not file_path.exists():
ExplicitPathMissing(f, a) == ~Exists(f, a.path.s)
\* line 82: if args.save_pickle:
SaveRequested(a) == Truthy(a.save_pickle)

\* lines 55-66
Resolve ==
    /\ pc = "resolve"
    /\ IF UsesExplicitPath(args)
       THEN IF ExplicitPathMissing(fs, args)
            THEN /\ out' = Append(out, Line("File not found at provided path", args.path.s))
                 /\ Return(2)
                 /\ UNCHANGED <<file_path, calls>>
            ELSE /\ file_path' = args.path.s
                 /\ pc' = "load"
                 /\ UNCHANGED <<out, rc, calls>>
       ELSE \E r \in find_file_by_name(fs, target_name, root) :
                 /\ calls' = Append(calls, "find_file_by_name") \o r.globs
                 /\ IF r.found.none
                    THEN /\ out' = Append(out, Line("Could not find", target_name))
                         /\ Return(3)
                         /\ UNCHANGED file_path
                    ELSE /\ file_path' = r.found.s
                         /\ pc' = "load"
                         /\ UNCHANGED <<out, rc>>
    /\ UNCHANGED <<args, fs, fs0, exc, df>>

\* lines 68-73 with the return of line 73 left out: the run carries on
\* to the report after the error
Load_NoReturn ==
    /\ pc = "load"
    /\ calls' = Append(calls, "load_csv")
    /\ LET r == load_csv(fs, file_path, args.encoding,
                         IF args.no_index THEN NoneCol ELSE Col("email_id")) IN
       IF r.raised
       THEN /\ out' = out \o <<Line("Loading CSV", file_path),
                               Line("Error loading CSV", r.exc)>>
            /\ UNCHANGED df
       ELSE /\ out' = Append(out, Line("Loading CSV", file_path))
            /\ df' = r.df
    /\ pc' = "report"
    /\ UNCHANGED <<args, fs, fs0, rc, exc, file_path>>

\* lines 68-73
Load ==
    /\ pc = "load"
    /\ calls' = Append(calls, "load_csv")
    /\ LET r == load_csv(fs, file_path, args.encoding,
                         IF args.no_index THEN NoneCol ELSE Col("email_id")) IN
       IF r.raised
       THEN /\ out' = out \o <<Line("Loading CSV", file_path),
                               Line("Error loading CSV", r.exc)>>
            /\ Return(4)
            /\ UNCHANGED df
       ELSE /\ out' = Append(out, Line("Loading CSV", file_path))
            /\ df' = r.df
            /\ pc' = "report"
            /\ UNCHANGED rc
    /\ UNCHANGED <<args, fs, fs0, exc, file_path>>

\* lines 75-80
Report ==
    /\ pc = "report"
    /\ out' = out
              \o <<Line("DataFrame loaded successfully", ""),
                   Line("Shape", <<Len(df.rows), Len(df.columns)>>),
                   Line("Columns", df.columns)>>
              \o (IF args.head # 0
                  THEN <<Line("Showing top rows", ""),
                         Line("head", head(df, args.head))>>
                  ELSE <<>>)
    /\ pc' = "save"
    /\ UNCHANGED <<args, fs, fs0, rc, exc, file_path, df, calls>>

\* lines 82-87 writing to a default out.pkl when --save-pickle is not given
Save_DefaultOut ==
    /\ pc = "save"
    /\ LET o == IF SaveRequested(args) THEN args.save_pickle.s ELSE P(Cwd, OutName) IN
       /\ calls' = Append(calls, "to_pickle")
       /\ IF ToPickleRaises(fs, o)
          THEN /\ pc' = "raised"
               /\ exc' = "OSError"
               /\ UNCHANGED <<fs, out, rc>>
          ELSE /\ fs' = to_pickle(fs, df, o)
               /\ out' = Append(out, Line("Wrote DataFrame pickle to", o))
               /\ Return(0)
               /\ UNCHANGED exc
    /\ UNCHANGED <<args, fs0, file_path, df>>

\* lines 82-87
Save ==
    /\ pc = "save"
    /\ IF SaveRequested(args)
       THEN /\ calls' = Append(calls, "to_pickle")
            /\ IF ToPickleRaises(fs, args.save_pickle.s)
               THEN /\ pc' = "raised"
                    /\ exc' = "OSError"
                    /\ UNCHANGED <<fs, out, rc>>
               ELSE /\ fs' = to_pickle(fs, df, args.save_pickle.s)
                    /\ out' = Append(out, Line("Wrote DataFrame pickle to", args.save_pickle.s))
                    /\ Return(0)
                    /\ UNCHANGED exc
       ELSE /\ Return(0)
            /\ UNCHANGED <<fs, out, exc, calls>>
    /\ UNCHANGED <<args, fs0, file_path, df>>

Next == Resolve \/ Load \/ Report \/ Save

Spec == Init /\ [][Next]_vars

(***************************************************************************)
(* Vocabulary of the properties.                                           *)
(***************************************************************************)
Printed(tag) == \E i \in 1..Len(out) : out[i].tag = tag
Called(fn) == \E i \in 1..Len(calls) : calls[i] = fn
TimesCalled(fn) == Cardinality({i \in 1..Len(calls) : calls[i] = fn})
Exited(code) == pc = "returned" /\ rc = code
Finished == pc \in {"returned", "raised"}
\* load_csv has returned a table
Loaded == pc \in {"report", "save", "raised"} \/ Exited(0)
\* the report of lines 75-80 has been printed
Reported == pc \in {"save", "raised"} \/ Exited(0)

\* --path was given on the command line, and the path it names
PathSupplied == ~args.path.none
SuppliedPlace == PlaceOf(args.path.s)
\* the path named by --path is not on disk when main starts
SuppliedPathAbsent ==
    /\ PathSupplied
    /\ args.path.s.name # <<>>
    /\ SuppliedPlace \notin DOMAIN fs0

\* the candidates of the three stages of the search, read off the tree
DotCsv == <<".", "c", "s", "v">>
EndsWithCsv(n) == Len(n) >= 4 /\ SubSeq(n, Len(n) - 3, Len(n)) = DotCsv
Stage1Candidates == {pl \in DOMAIN fs0 : pl = Place(Cwd, target_name)}
Stage2Candidates == {pl \in DOMAIN fs0 : pl.name = target_name}
Stage3Candidates ==
    {pl \in DOMAIN fs0 : EndsWithCsv(pl.name)
                         /\ Contains(Lower(pl.name), Lower(target_name))}
\* find_file_by_name has returned, and returned a path
Searched == Called("find_file_by_name")
Found == Searched /\ ~Exited(3)

\* C1: when --path names a path that does not exist, main prints the
\* path-not-found message and returns 2, and neither find_file_by_name nor
\* load_csv is ever called in that run.
C1_MissingPathExits2 ==
    SuppliedPathAbsent =>
        /\ ~Called("find_file_by_name")
        /\ ~Called("load_csv")
        /\ pc # "resolve" =>
              /\ Exited(2)
              /\ Len(out) = 1
              /\ out[1].tag = "File not found at provided path"
              /\ out[1].val = args.path.s
C1_Witness == SuppliedPathAbsent /\ Exited(2)

\* C2: the search is performed if and only if --path was omitted: for
\* every value supplied for --path, the empty string included, main skips
\* find_file_by_name, and such a run never returns 3.
C2_SearchIffPathOmitted ==
    /\ PathSupplied => ~Called("find_file_by_name") /\ ~Exited(3)
    /\ (~PathSupplied /\ pc # "resolve") => Called("find_file_by_name")

\* C3: find_file_by_name answers from the earliest stage that has a
\* candidate: the literal relative path when it exists, else an entry
\* named exactly as the target, else a .csv entry whose name contains the
\* target case-insensitively; a name that is not the target's is returned
\* only when the first two stages had no candidate.  The literal path is
\* returned without any rglob call.
C3_EarliestStageWins ==
    Searched =>
        /\ Stage1Candidates # {} =>
              Found /\ file_path = P(Cwd, target_name) /\ ~Called("rglob")
        /\ (Stage1Candidates = {} /\ Stage2Candidates # {}) =>
              Found /\ PlaceOf(file_path) \in Stage2Candidates
        /\ (Stage1Candidates = {} /\ Stage2Candidates = {} /\ Stage3Candidates # {}) =>
              Found /\ PlaceOf(file_path) \in Stage3Candidates
        /\ (Found /\ file_path.name # target_name) =>
              Stage1Candidates = {} /\ Stage2Candidates = {}
C3_Witness ==
    /\ Found
    /\ Stage1Candidates = {} /\ Stage2Candidates # {} /\ Stage3Candidates # Stage2Candidates
    /\ file_path.name = target_name

\* C4: find_file_by_name returns None exactly when none of the three
\* stages has a candidate; main then prints the could-not-find message and
\* returns 3, having called the search once (one rglob per recursive stage)
\* and load_csv never.
C4_AbsenceExits3 ==
    /\ Searched =>
          (Exited(3) <=> (Stage1Candidates = {} /\ Stage2Candidates = {}
                          /\ Stage3Candidates = {}))
    /\ Exited(3) =>
          /\ ~PathSupplied \/ args.path.s = EmptyStr
          /\ TimesCalled("find_file_by_name") = 1
          /\ TimesCalled("rglob") = 2
          /\ ~Called("load_csv")
          /\ Len(out) = 1
          /\ out[1].tag = "Could not find"
C4_Witness == Exited(3) /\ DOMAIN fs0 # {} /\ ~PathSupplied

\* load_csv raises on the resolved file
LoadRaises == Called("load_csv") /\ read_csv(fs0, file_path, args.encoding).raised

\* C5: whenever load_csv raises, main has printed the Loading CSV line and
\* then the Error loading CSV line with the error, returns 4, and prints no
\* success message, shape, columns or preview and writes no snapshot.
C5_LoadFailureExits4 ==
    /\ LoadRaises =>
          /\ Exited(4)
          /\ Len(out) = 2
          /\ out[1].tag = "Loading CSV"
          /\ out[2] = Line("Error loading CSV", read_csv(fs0, file_path, args.encoding).exc)
          /\ ~Called("to_pickle")
          /\ fs = fs0
    /\ Exited(4) => LoadRaises
C5_Witness == LoadRaises /\ Exited(4) /\ out[2].val = "UnicodeDecodeError"

\* the table read_csv parsed from the resolved file, before any indexing
ParsedTable == fs0[PlaceOf(file_path)].table
EmailIdPosition == CHOOSE k \in 1..Len(ParsedTable.columns) : ParsedTable.columns[k] = "email_id"
HasEmailId == \E k \in 1..Len(ParsedTable.columns) : ParsedTable.columns[k] = "email_id"
PositionalIndex(t) == \A i \in 1..Len(t.index) : t.index[i] = i - 1

\* C6: for a CSV with a column email_id, without --no-index the loaded
\* table's index is that column's values and email_id is no longer a data
\* column; with --no-index the table keeps the positional index and
\* email_id stays an ordinary column.
C6_EmailIdBecomesIndex ==
    (Loaded /\ HasEmailId) =>
        IF args.no_index
        THEN /\ df = ParsedTable
             /\ PositionalIndex(df)
             /\ \E k \in 1..Len(df.columns) : df.columns[k] = "email_id"
        ELSE /\ Len(df.index) = Len(ParsedTable.rows)
             /\ Len(df.rows) = Len(ParsedTable.rows)
             /\ \A i \in 1..Len(df.index) :
                    df.index[i] = ParsedTable.rows[i][EmailIdPosition]
             /\ \A k \in 1..Len(df.columns) : df.columns[k] # "email_id"
             /\ Len(df.columns) = Len(ParsedTable.columns) - 1
             /\ \A i \in 1..Len(df.rows) : Len(df.rows[i]) = Len(df.columns)
C6_Witness ==
    /\ Loaded /\ HasEmailId /\ ~args.no_index
    /\ df.index = <<7, 7, 9>>
    /\ df.columns = <<"subject">>

\* C7: when the index column is asked for but no column has exactly that
\* name, load_csv returns the parsed table unmodified and raises nothing;
\* the run goes on to the report and can return 0.
C7_AbsentIndexColumnIsSilent ==
    (Called("load_csv") /\ ~args.no_index /\ ~LoadRaises /\ ~HasEmailId) =>
        /\ Loaded
        /\ df = ParsedTable
        /\ PositionalIndex(df)
        /\ ~Printed("Error loading CSV")
        /\ Finished => (Printed("Shape") /\ Printed("Columns"))
C7_Witness ==
    /\ Called("load_csv") /\ ~args.no_index /\ ~LoadRaises /\ ~HasEmailId
    /\ Exited(0) /\ Printed("Columns")

\* the rows of the preview that was printed
PreviewAt == CHOOSE i \in 1..Len(out) : out[i].tag = "head"
Preview == out[PreviewAt].val

\* C8: after a successful load the shape and the column list are always
\* printed; with --head 0 neither the preview header nor any row is
\* printed; with --head N, N > 0, on a table of at least N rows exactly the
\* first N rows are shown; with the default of 5 on a shorter table all
\* rows are shown.
C8_HeadGovernsPreview ==
    Reported =>
        /\ Len(out) >= 4
        /\ out[2].tag = "DataFrame loaded successfully"
        /\ out[3] = Line("Shape", <<Len(df.rows), Len(df.columns)>>)
        /\ out[4] = Line("Columns", df.columns)
        /\ args.head = 0 => (~Printed("Showing top rows") /\ ~Printed("head"))
        /\ args.head # 0 => (out[5].tag = "Showing top rows" /\ out[6].tag = "head")
        /\ (args.head > 0 /\ Len(df.rows) >= args.head) =>
              /\ Len(Preview.rows) = args.head
              /\ \A i \in 1..args.head :
                    Preview.rows[i] = df.rows[i] /\ Preview.index[i] = df.index[i]
        /\ (args.head = DefaultHead /\ Len(df.rows) < DefaultHead) =>
              Preview.rows = df.rows /\ Preview.index = df.index
C8_Witness ==
    /\ Reported /\ args.head = 2 /\ Len(df.rows) = 3
    /\ Len(Preview.rows) = 2

\* --save-pickle was given with a non-empty OUT
SaveSupplied == ~args.save_pickle.none /\ args.save_pickle.s # EmptyStr
OutPlace == PlaceOf(args.save_pickle.s)

\* C9: given --save-pickle OUT and a successful load, when main finishes a
\* snapshot of the table is at OUT, the confirmation line naming OUT is the
\* last line printed, after the report, and main returns 0.
C9_SnapshotWritten ==
    (SaveSupplied /\ Loaded /\ Finished) =>
        /\ Exited(0)
        /\ OutPlace \in DOMAIN fs
        /\ fs[OutPlace] = Pickle(df)
        /\ Printed("Columns")
        /\ out[Len(out)] = Line("Wrote DataFrame pickle to", args.save_pickle.s)

\* C10: a run that returns 2, 3 or 4, and a run without --save-pickle,
\* leaves the file system as it found it.
C10_FileSystemUntouched ==
    /\ (Exited(2) \/ Exited(3) \/ Exited(4)) => fs = fs0
    /\ args.save_pickle.none => fs = fs0
C10_Witness ==
    /\ Exited(4) /\ SaveSupplied
    /\ OutPlace \in DOMAIN fs0
    /\ fs = fs0
====
